---- MODULE Spec2Model ----
(***************************************************************************)
(* Model of sm-action's main.rs: parsing of the "UUID > Name" lines, the   *)
(* join of the vault's records with the identifier map, the GITHUB_ENV     *)
(* file command, the run command, and the control flow of main.            *)
(*                                                                         *)
(* Text is a sequence of atoms.  An atom is one character (" ", ">",       *)
(* "\n", a letter) or an indivisible piece of text whose inside no         *)
(* operation of the program looks at (the text of a UUID, the fixed        *)
(* prefix "ghadelimiter_", the marker "<<").                               *)
(***************************************************************************)
EXTENDS Integers, Sequences, FiniteSets, TLC

VARIABLES
    l_line, l_out,              \* one line and what the parser reads from it
    p_lines, p_out,             \* parse_secret_input: argument and outcome
    j_map, j_data, j_out,       \* prepare_secret_env_vars: arguments and result
    pc,                         \* where main is
    config,                     \* Config: the secrets lines and the run command
    id_to_name_map,             \* main's id_to_name_map
    secrets_data,               \* secrets.data, the vault's answer
    secret_envs,                \* main's secret_envs
    iter_rest,                  \* names secret_envs.iter() has yet to yield
    cur,                        \* the (name, value) the loop body holds
    stdout, stderr,             \* what was printed, one element per println
    os,                         \* std::env::consts::OS of the build
    github_env,                 \* the GITHUB_ENV variable of the process
    env_file0, env_file,        \* the file GITHUB_ENV names: at start, now
    rng,                        \* how many UUIDs new_v4 has generated
    children,                   \* the child processes spawned
    vault_calls,                \* the requests made to the vault
    steps,                      \* the steps of main taken so far
    frames,                     \* the calls of issue_file_command so far
    run_call,                   \* the call of execute_run_command, if any
    failed,                     \* which step failed, "none" if none
    exit_status                 \* the exit status of the process

lineVars == <<l_line, l_out>>
parseVars == <<p_lines, p_out>>
joinVars == <<j_map, j_data, j_out>>
runVars == <<pc, config, id_to_name_map, secrets_data, secret_envs, iter_rest,
             cur, stdout, stderr, os, github_env, env_file0, env_file, rng,
             children, vault_calls, steps, frames, run_call, failed,
             exit_status>>
vars == <<l_line, l_out, p_lines, p_out, j_map, j_data, j_out, pc, config,
          id_to_name_map, secrets_data, secret_envs, iter_rest, cur, stdout,
          stderr, os, github_env, env_file0, env_file, rng, children,
          vault_calls, steps, frames, run_call, failed, exit_status>>

\* ------------------------------------------------------------------ bounds
MaxLineLen == 4     \* atoms in a line of the single-line specification
MaxLines == 3       \* lines given to parse_secret_input
MaxRecords == 3     \* records given to prepare_secret_env_vars
MaxSecrets == 2     \* lines of config.secrets in a run of main
MaxData == 2        \* records the vault returns in a run of main

\* -------------------------------------------------------------------- text
U1 == "91ba3f10-a9a2-4795-bacf-0eee2d39a074"
U1Upper == "91BA3F10-A9A2-4795-BACF-0EEE2D39A074"
U2 == "bfd7aa33-54f2-487b-bbbf-4a69b49fdc0d"

WhiteSpace == {" ", "\n"}

None == <<>>
Some(x) == <<x>>

RECURSIVE trim_start(_)
trim_start(s) ==
    IF s # <<>> /\ Head(s) \in WhiteSpace THEN trim_start(Tail(s)) ELSE s

RECURSIVE trim_end(_)
trim_end(s) ==
    IF s # <<>> /\ s[Len(s)] \in WhiteSpace
    THEN trim_end(SubSeq(s, 1, Len(s) - 1))
    ELSE s

trim(s) == trim_end(trim_start(s))

\* str::split(pat): the pieces between the occurrences of pat, in order;
\* a text without pat is one piece, itself.
RECURSIVE split(_, _)
split(s, pat) ==
    IF \E i \in 1..Len(s) : s[i] = pat
    THEN LET i == CHOOSE k \in 1..Len(s) :
                      s[k] = pat /\ \A m \in 1..(k - 1) : s[m] # pat
         IN  <<SubSeq(s, 1, i - 1)>> \o split(SubSeq(s, i + 1, Len(s)), pat)
    ELSE <<s>>

\* Iterator::nth(n), counted from 0
nth(it, n) == IF n + 1 <= Len(it) THEN Some(it[n + 1]) ELSE None

\* Option<&str>::unwrap_or_default
unwrap_or_default(opt) == IF opt = None THEN <<>> ELSE opt[1]

\* Uuid::from_str: the text must be exactly the text of one UUID; upper and
\* lower case hexadecimal digits denote the same value.
Uuid_from_str(s) ==
    IF Len(s) = 1 /\ s[1] \in {U1, U1Upper, U2}
    THEN <<"Ok", IF s[1] = U2 THEN "uuid2" ELSE "uuid1">>
    ELSE <<"Err", s>>

\* --------------------------------------------------- parse_secret_input
uuid_part(line) == trim(unwrap_or_default(nth(split(line, ">"), 0)))

desired_name_rest(line) ==
    IF \E i \in 1..Len(line) : line[i] = ">"
    THEN LET i == CHOOSE k \in 1..Len(line) :
                      line[k] = ">" /\ \A m \in 1..(k - 1) : line[m] # ">"
         IN  trim(SubSeq(line, i + 1, Len(line)))
    ELSE <<>>

desired_name(line) == trim(unwrap_or_default(nth(split(line, ">"), 1)))

\* HashMap::insert: the new map and the value the key had before
insert(map, k, v) ==
    [map |-> [x \in (DOMAIN map) \cup {k} |-> IF x = k THEN v ELSE map[x]],
     old |-> IF k \in DOMAIN map THEN Some(map[k]) ELSE None]

EmptyMap == [x \in {} |-> <<>>]

\* One turn of the loop over the lines: st is the map built so far and the
\* warnings written to standard error; the turn either fails (the `?`) or
\* gives the next st.
parse_step_keep_first(st, line) ==
    LET up == uuid_part(line)
        uuid == Uuid_from_str(up)
    IN  IF uuid[1] = "Err"
        THEN [err |-> Some(<<"Invalid UUID format: ", up>>),
              map |-> st.map, stderr |-> st.stderr]
        ELSE IF uuid[2] \in DOMAIN st.map
             THEN [err |-> None, map |-> st.map, stderr |-> st.stderr]
             ELSE [err |-> None,
                   map |-> insert(st.map, uuid[2], desired_name(line)).map,
                   stderr |-> st.stderr]

parse_step_skip_invalid(st, line) ==
    LET up == uuid_part(line)
        uuid == Uuid_from_str(up)
    IN  IF uuid[1] = "Err"
        THEN [err |-> None, map |-> st.map, stderr |-> st.stderr]
        ELSE LET name == desired_name(line)
                 ins == insert(st.map, uuid[2], name)
             IN  [err |-> None,
                  map |-> ins.map,
                  stderr |-> IF ins.old # None
                             THEN Append(st.stderr, <<uuid[2], ins.old[1], name>>)
                             ELSE st.stderr]

parse_step(st, line) ==
    LET up == uuid_part(line)
        uuid == Uuid_from_str(up)
    IN  IF uuid[1] = "Err"
        THEN [err |-> Some(<<"Invalid UUID format: ", up>>),
              map |-> st.map, stderr |-> st.stderr]
        ELSE LET name == desired_name(line)
                 ins == insert(st.map, uuid[2], name)
             IN  [err |-> None,
                  map |-> ins.map,
                  stderr |-> IF ins.old # None
                             THEN Append(st.stderr, <<uuid[2], ins.old[1], name>>)
                             ELSE st.stderr]

\* The loop: lines i.. of the input, from state st.  The outcome is the
\* Result<HashMap, Error> returned, the warnings written, and how many lines
\* the loop took from the iterator.
RECURSIVE parse_loop(_, _, _)
parse_loop(lines, i, st) ==
    IF i > Len(lines)
    THEN [result |-> <<"Ok", st.map>>, stderr |-> st.stderr, taken |-> Len(lines)]
    ELSE LET nx == parse_step(st, lines[i])
         IN  IF nx.err # None
             THEN [result |-> <<"Err", nx.err[1]>>, stderr |-> nx.stderr, taken |-> i]
             ELSE parse_loop(lines, i + 1, nx)

parse_secret_input(secret_lines) ==
    parse_loop(secret_lines, 1, [err |-> None, map |-> EmptyMap, stderr |-> <<>>])

\* ------------------------------------------------ prepare_secret_env_vars
\* the closure of filter_map: the pair for a record whose id the map knows
lookup(secret, map) ==
    IF secret.id \in DOMAIN map
    THEN Some(<<map[secret.id], secret.value>>)
    ELSE None

RECURSIVE filter_map(_, _)
filter_map(data, map) ==
    IF data = <<>>
    THEN <<>>
    ELSE LET r == lookup(Head(data), map)
         IN  (IF r = None THEN <<>> ELSE <<r[1]>>) \o filter_map(Tail(data), map)

\* FromIterator for HashMap: the pairs are inserted in the order they come
RECURSIVE collect(_, _)
collect(pairs, acc) ==
    IF pairs = <<>>
    THEN acc
    ELSE collect(Tail(pairs), insert(acc, Head(pairs)[1], Head(pairs)[2]).map)

RECURSIVE collect_keep_first(_, _)
collect_keep_first(pairs, acc) ==
    IF pairs = <<>>
    THEN acc
    ELSE collect_keep_first(Tail(pairs),
             IF Head(pairs)[1] \in DOMAIN acc
             THEN acc
             ELSE insert(acc, Head(pairs)[1], Head(pairs)[2]).map)

prepare_secret_env_vars_keep_first(data, map) ==
    collect_keep_first(filter_map(data, map), EmptyMap)

prepare_secret_env_vars(data, map) ==
    collect(filter_map(data, map), EmptyMap)

\* -------------------------------------------------------------- set_secrets
\* println!("::add-mask::{value}"): out is standard output so far
mask_value_literal(out, value) == Append(out, <<"::add-mask::", "{value}">>)

mask_value(out, value) == Append(out, <<"::add-mask::">> \o value)

DevNull == "/dev/null"
EnvFilePath == "/home/runner/_temp/set_env"
BadPath == "/nonexistent/set_env"

\* config::get_env: the value of the environment variable, if it is set
get_env(key) == IF key = "GITHUB_ENV" THEN github_env ELSE None

\* get_env("GITHUB_ENV").unwrap_or("/dev/null".to_owned())
env_path_or_empty(opt) == IF opt = None THEN "" ELSE opt[1]

env_path(opt) == IF opt = None THEN DevNull ELSE opt[1]

\* OpenOptions::new().create(true).append(true).open(path): which file the
\* handle appends to, or the error of the operating system.  /dev/null is
\* the null device of a POSIX system; Windows has no such path.
open(path, system) ==
    IF path = DevNull /\ system # "windows" THEN <<"Ok", "sink">>
    ELSE IF path = EnvFilePath THEN <<"Ok", "file">>
    ELSE <<"Err", "No such file or directory (os error 2)">>

\* uuid::Uuid::new_v4() when n have been generated: a value none of them has
new_v4(n) == ToString(n + 1)

\* the text writeln! formats
frame_text(key, delimiter, value) ==
    key \o <<"<<">> \o delimiter \o <<"\n">> \o value \o <<"\n">>
        \o delimiter \o <<"\n">>

\* issue_file_command on a handle appending to content (the sink keeps
\* nothing).  fault is None, or Some(k) when the operating system fails the
\* write after taking k atoms of the text.
issue_file_command_fixed(sink, content, key, value, n, fault) ==
    LET delimiter == <<"ghadelimiter_">>
        text == frame_text(key, delimiter, value)
        k == IF fault = None THEN Len(text) ELSE fault[1]
    IN  [content |-> IF sink THEN content ELSE content \o SubSeq(text, 1, k),
         delimiter |-> delimiter,
         written |-> k,
         result |-> IF fault = None THEN <<"Ok">> ELSE <<"Err", "write">>]

issue_file_command(sink, content, key, value, n, fault) ==
    LET delimiter == <<"ghadelimiter_", new_v4(n)>>
        text == frame_text(key, delimiter, value)
        k == IF fault = None THEN Len(text) ELSE fault[1]
    IN  [content |-> IF sink THEN content ELSE content \o SubSeq(text, 1, k),
         delimiter |-> delimiter,
         written |-> k,
         result |-> IF fault = None THEN <<"Ok">> ELSE <<"Err", "write">>]

\* the faults a write of the frame of (key, value) can meet
WriteFaults(key, value) ==
    {None} \cup {Some(k) : k \in 0..(Len(frame_text(key, <<"d", "d">>, value)) - 1)}

\* ------------------------------------------------------ execute_run_command
success(exit) == exit = "exit status: 0"

\* status is what Command::status() answers when it is asked
execute_run_command_any_exit(run_cmd, envs, system, status) ==
    IF trim(run_cmd) = <<>>
    THEN [spawn |-> None, child |-> FALSE, result |-> <<"Ok">>]
    ELSE LET shell == IF system = "windows" THEN "powershell" ELSE "/bin/sh"
             cmd == [program |-> shell, args |-> <<"-c", run_cmd>>, envs |-> envs]
         IN  IF status[1] = "Ok"
             THEN [spawn |-> Some(cmd), child |-> TRUE, result |-> <<"Ok">>]
             ELSE [spawn |-> Some(cmd), child |-> FALSE,
                   result |-> <<"Err", <<"Failed to execute commands: ", status[2]>> >>]

execute_run_command(run_cmd, envs, system, status) ==
    IF trim(run_cmd) = <<>>
    THEN [spawn |-> None, child |-> FALSE, result |-> <<"Ok">>]
    ELSE LET shell == IF system = "windows" THEN "powershell" ELSE "/bin/sh"
             cmd == [program |-> shell, args |-> <<"-c", run_cmd>>, envs |-> envs]
         IN  IF status[1] = "Ok" /\ success(status[2])
             THEN [spawn |-> Some(cmd), child |-> TRUE, result |-> <<"Ok">>]
             ELSE IF status[1] = "Ok"
             THEN [spawn |-> Some(cmd), child |-> TRUE,
                   result |-> <<"Err", <<"Commands exited with non-zero status: ",
                                         status[2]>> >>]
             ELSE [spawn |-> Some(cmd), child |-> FALSE,
                   result |-> <<"Err", <<"Failed to execute commands: ", status[2]>> >>]

\* --------------------------------------------------------------------- main
\* if let Some(run_cmd) = &config.run
mode_nonblank(run) ==
    IF run # None /\ trim(run[1]) # <<>> THEN "run" ELSE "loop"

mode(run) == IF run # None THEN "run" ELSE "loop"

\* if let Err(e) = auth_result { return Err(..) }
auth_next_ignore(auth_result) == "get"

auth_next(auth_result) == IF auth_result = "Err" THEN "abort" ELSE "get"

\* the inputs of a run
Seqs(S, n) == UNION {[1..k -> S] : k \in 0..n}

NameA == <<"A">>
NameB == <<"B">>
ValueV == <<"v">>
ValueW == <<"w", "=", "\n", "w">>

SecretLines ==
    {<<U1, " ", ">", " ", "A">>, <<U1Upper, ">", "B">>, <<U2, ">", "A">>,
     <<"invalid-uuid", " ", ">", "A">>}

RunCommands == {<<>>, <<" ", " ">>, <<"exit", " ", "1">>}

Configs ==
    [loaded : {TRUE},
     secrets : Seqs(SecretLines, MaxSecrets),
     run : {None} \cup {Some(c) : c \in RunCommands}]

Records == [id : {"uuid1", "uuid2", "uuid3"}, value : {ValueV, ValueW}]

Statuses ==
    {<<"Ok", "exit status: 0">>, <<"Ok", "exit status: 1">>,
     <<"Ok", "signal: 9 (SIGKILL)">>,
     <<"Err", "No such file or directory (os error 2)">>}

NoConfig == [loaded |-> FALSE, secrets |-> <<>>, run |-> None]
NoCur == <<>>

RunInit ==
    /\ pc = "start"
    /\ config = NoConfig
    /\ id_to_name_map = EmptyMap
    /\ secrets_data = <<>>
    /\ secret_envs = EmptyMap
    /\ iter_rest = {}
    /\ cur = NoCur
    /\ stdout = <<>>
    /\ stderr = <<>>
    /\ os \in {"linux", "windows"}
    /\ github_env \in {None, Some(EnvFilePath), Some(BadPath)}
    /\ env_file0 \in {<<>>, <<"CI", "=", "true", "\n">>}
    /\ env_file = env_file0
    /\ rng = 0
    /\ children = <<>>
    /\ vault_calls = <<>>
    /\ steps = <<>>
    /\ frames = <<>>
    /\ run_call = None
    /\ failed = "none"
    /\ exit_status = "running"

\* the state of the run where the specification of one function leaves it
RunIdle ==
    /\ RunInit
    /\ os = "linux"
    /\ github_env = None
    /\ env_file0 = <<>>

\* return Err(..) from main: the message goes to standard error, the
\* process exits with a status other than 0
Abort(kind, message) ==
    /\ pc' = "exit"
    /\ failed' = kind
    /\ exit_status' = "1"
    /\ stderr' = Append(stderr, <<"Error: ", message>>)

\* return Ok(()) from main
Finish ==
    /\ pc' = "exit"
    /\ exit_status' = "0"
    /\ UNCHANGED <<failed, stderr>>

\* lines 20-23: --test among the arguments
Start ==
    /\ pc = "start"
    /\ \E test \in BOOLEAN :
          IF test
          THEN /\ stdout' = Append(stdout, <<"success">>)
               /\ Finish
          ELSE /\ pc' = "config"
               /\ UNCHANGED <<stdout, failed, stderr, exit_status>>
    /\ UNCHANGED <<config, id_to_name_map, secrets_data, secret_envs,
                   iter_rest, cur, os, github_env, env_file0, env_file, rng,
                   children, vault_calls, steps, frames, run_call>>
    /\ UNCHANGED <<lineVars, parseVars, joinVars>>

\* lines 25-33: Config::new()?, infer_urls(&config)?, Client::new
LoadConfig ==
    /\ pc = "config"
    /\ \/ /\ Abort("config", "configuration")
          /\ UNCHANGED config
       \/ /\ \E c \in Configs : config' = c
          /\ pc' = "parse"
          /\ UNCHANGED <<failed, stderr, exit_status>>
    /\ UNCHANGED <<id_to_name_map, secrets_data, secret_envs, iter_rest, cur,
                   stdout, os, github_env, env_file0, env_file, rng, children,
                   vault_calls, steps, frames, run_call>>
    /\ UNCHANGED <<lineVars, parseVars, joinVars>>

\* lines 35-38: config.secrets is moved into parse_secret_input
Parse ==
    /\ pc = "parse"
    /\ stdout' = Append(stdout, <<"Parsing secrets input...">>)
    /\ steps' = Append(steps, "parse")
    /\ config' = [config EXCEPT !.secrets = <<>>]
    /\ LET out == parse_secret_input(config.secrets)
       IN  IF out.result[1] = "Err"
           THEN /\ pc' = "exit"
                /\ failed' = "parse"
                /\ exit_status' = "1"
                /\ stderr' = Append(stderr \o out.stderr,
                      <<"Error: ", "Failed to parse secrets input. Ensure the format is 'UUID > Name'.">>)
                /\ UNCHANGED id_to_name_map
           ELSE /\ pc' = "auth"
                /\ id_to_name_map' = out.result[2]
                /\ stderr' = stderr \o out.stderr
                /\ UNCHANGED <<failed, exit_status>>
    /\ UNCHANGED <<secrets_data, secret_envs, iter_rest, cur, os, github_env,
                   env_file0, env_file, rng, children, vault_calls, frames,
                   run_call>>
    /\ UNCHANGED <<lineVars, parseVars, joinVars>>

\* lines 40-54: the login request and the test of its result
Authenticate ==
    /\ pc = "auth"
    /\ stdout' = Append(stdout, <<"Authenticating with Bitwarden...">>)
    /\ steps' = Append(steps, "authenticate")
    /\ \E auth_result \in {"Ok", "Err"} :
          LET nx == auth_next(auth_result)
          IN  /\ vault_calls' = Append(vault_calls,
                     [op |-> "login_access_token", ids |-> {},
                      result |-> auth_result])
              /\ IF nx = "abort"
                 THEN Abort("authenticate", "Authentication with Bitwarden failed.")
                 ELSE /\ pc' = nx
                      /\ UNCHANGED <<failed, stderr, exit_status>>
    /\ UNCHANGED <<config, id_to_name_map, secrets_data, secret_envs,
                   iter_rest, cur, os, github_env, env_file0, env_file, rng,
                   children, frames, run_call>>
    /\ UNCHANGED <<lineVars, parseVars, joinVars>>

\* lines 56-66: the ids are the keys of the map; the vault answers with an
\* error or with records
GetSecrets ==
    /\ pc = "get"
    /\ steps' = Append(steps, "resolve")
    /\ \/ /\ Abort("resolve", "The secrets provided could not be found.")
          /\ vault_calls' = Append(vault_calls,
                 [op |-> "get_by_ids", ids |-> DOMAIN id_to_name_map,
                  result |-> "Err"])
          /\ UNCHANGED secrets_data
       \/ /\ \E data \in Seqs(Records, MaxData) : secrets_data' = data
          /\ vault_calls' = Append(vault_calls,
                 [op |-> "get_by_ids", ids |-> DOMAIN id_to_name_map,
                  result |-> "Ok"])
          /\ pc' = "project"
          /\ UNCHANGED <<failed, stderr, exit_status>>
    /\ UNCHANGED <<config, id_to_name_map, secret_envs, iter_rest, cur,
                   stdout, os, github_env, env_file0, env_file, rng, children,
                   frames, run_call>>
    /\ UNCHANGED <<lineVars, parseVars, joinVars>>

\* lines 68-72: the join, then the choice between the run command and the
\* loop over secret_envs
Project ==
    /\ pc = "project"
    /\ steps' = Append(steps, "project")
    /\ secret_envs' = prepare_secret_env_vars(secrets_data, id_to_name_map)
    /\ iter_rest' = DOMAIN secret_envs'
    /\ pc' = mode(config.run)
    /\ UNCHANGED <<config, id_to_name_map, secrets_data, cur, stdout, stderr,
                   os, github_env, env_file0, env_file, rng, children,
                   vault_calls, frames, run_call, failed, exit_status>>
    /\ UNCHANGED <<lineVars, parseVars, joinVars>>

\* line 71: execute_run_command(run_cmd, secret_envs)?
RunCommand ==
    /\ pc = "run"
    /\ steps' = Append(steps, "run")
    /\ \E status \in Statuses :
          LET r == execute_run_command(config.run[1], secret_envs, os, status)
          IN  /\ children' = IF r.child THEN Append(children, r.spawn[1])
                                        ELSE children
              /\ run_call' = Some([run_cmd |-> config.run[1],
                                   spawn |-> r.spawn,
                                   status |-> IF r.spawn = None THEN None
                                                                ELSE Some(status),
                                   result |-> r.result])
              /\ IF r.result[1] = "Err"
                 THEN Abort("command", r.result[2])
                 ELSE Finish
    /\ UNCHANGED <<config, id_to_name_map, secrets_data, secret_envs,
                   iter_rest, cur, stdout, os, github_env, env_file0, env_file,
                   rng, vault_calls, frames>>
    /\ UNCHANGED <<lineVars, parseVars, joinVars>>

\* lines 73-74: the iterator yields an entry, in no order the program
\* decides; the loop body prints its name
LoopNext ==
    /\ pc = "loop"
    /\ iter_rest # {}
    /\ \E name \in iter_rest :
          /\ cur' = <<name, secret_envs[name]>>
          /\ iter_rest' = iter_rest \ {name}
          /\ stdout' = Append(stdout, <<"Setting secret: ">> \o name)
    /\ steps' = Append(steps, "persist")
    /\ pc' = "mask"
    /\ UNCHANGED <<config, id_to_name_map, secrets_data, secret_envs, stderr,
                   os, github_env, env_file0, env_file, rng, children,
                   vault_calls, frames, run_call, failed, exit_status>>
    /\ UNCHANGED <<lineVars, parseVars, joinVars>>

\* line 123: set_secrets begins with mask_value(secret_value)
MaskValue ==
    /\ pc = "mask"
    /\ stdout' = mask_value(stdout, cur[2])
    /\ pc' = "write"
    /\ UNCHANGED <<config, id_to_name_map, secrets_data, secret_envs,
                   iter_rest, cur, stderr, os, github_env, env_file0, env_file,
                   rng, children, vault_calls, steps, frames, run_call,
                   failed, exit_status>>
    /\ UNCHANGED <<lineVars, parseVars, joinVars>>

\* lines 125-137: the rest of set_secrets, and the `?` of line 75
WriteEnv ==
    /\ pc = "write"
    /\ LET path == env_path(get_env("GITHUB_ENV"))
           env_file_h == open(path, os)
       IN  IF env_file_h[1] = "Err"
           THEN /\ Abort("file", env_file_h[2])
                /\ UNCHANGED <<env_file, rng, frames>>
           ELSE \E fault \in IF env_file_h[2] = "sink"
                             THEN {None}
                             ELSE WriteFaults(cur[1], cur[2]) :
                   LET w == issue_file_command(env_file_h[2] = "sink", env_file,
                                               cur[1], cur[2], rng, fault)
                   IN  /\ env_file' = w.content
                       /\ rng' = rng + 1
                       /\ frames' = Append(frames,
                              [target |-> env_file_h[2], name |-> cur[1],
                               value |-> cur[2], token |-> w.delimiter,
                               written |-> w.written, result |-> w.result[1]])
                       /\ IF w.result[1] = "Err"
                          THEN Abort("file", w.result[2])
                          ELSE /\ pc' = "loop"
                               /\ UNCHANGED <<failed, stderr, exit_status>>
    /\ UNCHANGED <<config, id_to_name_map, secrets_data, secret_envs,
                   iter_rest, cur, stdout, os, github_env, env_file0, children,
                   vault_calls, steps, run_call>>
    /\ UNCHANGED <<lineVars, parseVars, joinVars>>

\* line 79: the loop is over, main returns Ok(())
LoopEnd ==
    /\ pc = "loop"
    /\ iter_rest = {}
    /\ Finish
    /\ UNCHANGED <<config, id_to_name_map, secrets_data, secret_envs,
                   iter_rest, cur, stdout, os, github_env, env_file0, env_file,
                   rng, children, vault_calls, steps, frames, run_call>>
    /\ UNCHANGED <<lineVars, parseVars, joinVars>>

\* --------------------------------------------- the functions on their own
LineAtoms == {" ", ">", U1, U1Upper, "N"}

LineIdle == l_line = <<>> /\ l_out = None
ParseIdle == p_lines = <<>> /\ p_out = None
JoinIdle == j_map = EmptyMap /\ j_data = <<>> /\ j_out = None

\* what one turn of the parser's loop reads from a line
ReadLine ==
    /\ l_out = None
    /\ l_out' = Some([uuid_part |-> uuid_part(l_line),
                      uuid |-> Uuid_from_str(uuid_part(l_line)),
                      desired_name |-> desired_name(l_line)])
    /\ UNCHANGED <<l_line, parseVars, joinVars, runVars>>

ParseLines ==
    SecretLines \cup {<<U2>>, <<U1, ">", "A", ">", "B">>, <<U2, " ", ">", "B", " ">>}

CallParse ==
    /\ p_out = None
    /\ p_out' = Some(parse_secret_input(p_lines))
    /\ UNCHANGED <<p_lines, lineVars, joinVars, runVars>>

JoinMaps ==
    UNION {[D -> {NameA, NameB}] : D \in SUBSET {"uuid1", "uuid2"}}

CallPrepare ==
    /\ j_out = None
    /\ j_out' = Some(prepare_secret_env_vars(j_data, j_map))
    /\ UNCHANGED <<j_map, j_data, lineVars, parseVars, runVars>>

\* ------------------------------------------------------- specifications
Init ==
    /\ RunInit
    /\ LineIdle /\ ParseIdle /\ JoinIdle

Next ==
    \/ Start
    \/ LoadConfig
    \/ Parse
    \/ Authenticate
    \/ GetSecrets
    \/ Project
    \/ RunCommand
    \/ LoopNext
    \/ MaskValue
    \/ WriteEnv
    \/ LoopEnd

Spec == Init /\ [][Next]_vars

InitLine ==
    /\ l_line \in Seqs(LineAtoms, MaxLineLen)
    /\ l_out = None
    /\ ParseIdle /\ JoinIdle /\ RunIdle

NextLine == ReadLine

SpecLine == InitLine /\ [][NextLine]_vars

InitParse ==
    /\ p_lines \in Seqs(ParseLines, MaxLines)
    /\ p_out = None
    /\ LineIdle /\ JoinIdle /\ RunIdle

NextParse == CallParse

SpecParse == InitParse /\ [][NextParse]_vars

InitJoin ==
    /\ j_map \in JoinMaps
    /\ j_data \in Seqs(Records, MaxRecords)
    /\ j_out = None
    /\ LineIdle /\ ParseIdle /\ RunIdle

NextJoin == CallPrepare

SpecJoin == InitJoin /\ [][NextJoin]_vars

\* ------------------------------------------------------------ properties
Range(s) == {s[i] : i \in 1..Len(s)}
Min(S) == CHOOSE x \in S : \A y \in S : x <= y
Max(S) == CHOOSE x \in S : \A y \in S : y <= x
IsPrefix(a, b) == Len(a) <= Len(b) /\ SubSeq(b, 1, Len(a)) = a

\* the masking directives on standard output
MaskLines == {i \in 1..Len(stdout) : stdout[i][1] = "::add-mask::"}
Masked(value) == \E i \in 1..Len(stdout) : stdout[i] = <<"::add-mask::">> \o value

\* C1: mask-then-write.  Every value for which issue_file_command has been
\* called (so every value of which the environment file holds any byte), and
\* the value set_secrets is about to write, has its directive
\* ::add-mask::<value> on standard output already.
C1_MaskThenWrite ==
    /\ \A i \in 1..Len(frames) : Masked(frames[i].value)
    /\ pc = "write" => Masked(cur[2])

\* two different values, one of them of several lines, are in the file
C1_Witness ==
    /\ Len(frames) = 2
    /\ \A i \in 1..2 : frames[i].target = "file" /\ frames[i].result = "Ok"
    /\ frames[1].value # frames[2].value
    /\ env_file # env_file0

\* C2: the two modes exclude each other.  With a run command configured, be
\* it empty or blank, no masking directive is printed and nothing is
\* appended to the environment file; with none configured, no child process
\* is spawned and execute_run_command is not called.
C2_ModesExclusive ==
    /\ config.run # None =>
          MaskLines = {} /\ frames = <<>> /\ env_file = env_file0
    /\ config.run = None => children = <<>> /\ run_call = None

\* a run with a blank run command and secrets to expose has ended
C2_Witness ==
    /\ pc = "exit"
    /\ exit_status = "0"
    /\ config.run = Some(<<" ", " ">>)
    /\ Cardinality(DOMAIN secret_envs) = 2
    /\ run_call # None

\* what the parser makes of the UUID part of a line
LineUuid(line) == Uuid_from_str(uuid_part(line))
AllValid(lines) == \A i \in 1..Len(lines) : LineUuid(lines[i])[1] = "Ok"
LinesWith(lines, u) == {i \in 1..Len(lines) : LineUuid(lines[i]) = <<"Ok", u>>}

\* C3: when the UUID part of every line is valid, parse_secret_input returns
\* Ok with a map that has one entry for each UUID of the input (whatever the
\* case of its text) and no other, whose name is the name read from the last
\* line carrying that UUID; no lines give the empty map.
C3_LastNameWins ==
    (p_out # None /\ AllValid(p_lines)) =>
        LET r == p_out[1].result
        IN  /\ r[1] = "Ok"
            /\ DOMAIN r[2] = {LineUuid(p_lines[i])[2] : i \in 1..Len(p_lines)}
            /\ \A u \in DOMAIN r[2] :
                  r[2][u] = desired_name(p_lines[Max(LinesWith(p_lines, u))])
            /\ p_lines = <<>> => r[2] = EmptyMap

\* one UUID written in two cases on lines with different names, and another
C3_Witness ==
    /\ p_out # None
    /\ p_lines = <<<<U1, " ", ">", " ", "A">>, <<U2, ">", "A">>, <<U1Upper, ">", "B">> >>
    /\ p_out[1].result = <<"Ok", [u \in {"uuid1", "uuid2"} |->
                                     IF u = "uuid1" THEN NameB ELSE NameA]>>

\* C4: parsing fails as a whole and at once.  If some line's UUID part is
\* not a UUID, the result is Err naming the text of the first such line and
\* holds no map; the loop has taken the lines up to that one and no more,
\* and the warnings written are those of the lines before it.
C4_FailFast ==
    (p_out # None /\ ~AllValid(p_lines)) =>
        LET o == p_out[1]
            k == Min({i \in 1..Len(p_lines) : LineUuid(p_lines[i])[1] = "Err"})
        IN  /\ o.result = <<"Err", <<"Invalid UUID format: ", uuid_part(p_lines[k])>> >>
            /\ o.taken = k
            /\ o.stderr = parse_secret_input(SubSeq(p_lines, 1, k - 1)).stderr

\* an invalid line between two valid ones that carry the same UUID
C4_Witness ==
    /\ p_out # None
    /\ Len(p_lines) = 3
    /\ LineUuid(p_lines[1]) = <<"Ok", "uuid1">>
    /\ LineUuid(p_lines[2])[1] = "Err"
    /\ LineUuid(p_lines[3]) = <<"Ok", "uuid1">>
    /\ p_out[1].result[1] = "Err"
    /\ p_out[1].taken = 2

\* the frame of an entry: NAME<<TOKEN, the value as it is, TOKEN, each
\* followed by a newline
EntryFrame(f) ==
    f.name \o <<"<<">> \o f.token \o <<"\n">> \o f.value \o <<"\n">>
           \o f.token \o <<"\n">>

FileFrames == SelectSeq(frames, LAMBDA f : f.target = "file")

RECURSIVE Written(_)
Written(fs) ==
    IF fs = <<>>
    THEN <<>>
    ELSE SubSeq(EntryFrame(Head(fs)), 1, Head(fs).written) \o Written(Tail(fs))

\* C5: the environment file is what it was at the start followed, in the
\* order of the calls, by the frame of each call of issue_file_command on
\* it: whole for a call that returned Ok, and only a call that failed, which
\* is then the last, leaves less than its frame.  No two calls use the same
\* token.
C5_AppendOnlyFrames ==
    LET ff == FileFrames
    IN  /\ env_file = env_file0 \o Written(ff)
        /\ \A i \in 1..Len(ff) :
              /\ ff[i].result = "Ok" <=> ff[i].written = Len(EntryFrame(ff[i]))
              /\ ff[i].result = "Err" => i = Len(ff) /\ failed = "file"
        /\ \A i, j \in 1..Len(frames) :
              i # j => frames[i].token # frames[j].token

\* two whole frames, one with a value of several lines, after earlier content
C5_Witness ==
    /\ pc = "exit"
    /\ exit_status = "0"
    /\ env_file0 # <<>>
    /\ Len(FileFrames) = 2
    /\ \E i \in 1..2 : frames[i].value = ValueW
    /\ env_file = env_file0 \o EntryFrame(frames[1]) \o EntryFrame(frames[2])

\* GITHUB_ENV names a path that cannot be opened, or is unset where the
\* path taken in its place cannot be opened either
Unopenable ==
    \/ github_env = Some(BadPath)
    \/ github_env = None /\ os = "windows"

\* C6 as claimed: with GITHUB_ENV unset, or set to a path that cannot be
\* opened, set_secrets returns Ok and the run does not fail on the file.
C6_NeverFatal ==
    github_env \in {None, Some(BadPath)} => failed # "file"

\* C6, amended: with GITHUB_ENV unset on a system that has /dev/null, every
\* call of set_secrets writes to that sink and returns Ok, so a run that
\* reaches the loop exits with 0; with GITHUB_ENV set to a path that cannot
\* be opened (or unset where /dev/null cannot be opened) the first call of
\* set_secrets fails, after its masking directive, nothing is written and
\* the run exits with a status other than 0.
C6_UnsetIsNotFatal ==
    /\ (github_env = None /\ os # "windows") =>
          /\ failed # "file"
          /\ \A i \in 1..Len(frames) :
                frames[i].target = "sink" /\ frames[i].result = "Ok"
          /\ env_file = env_file0
          /\ (pc = "exit" /\ "persist" \in Range(steps)) => exit_status = "0"
    /\ Unopenable =>
          /\ frames = <<>>
          /\ env_file = env_file0
          /\ ("persist" \in Range(steps) /\ pc \notin {"mask", "write"}) =>
                /\ failed = "file"
                /\ exit_status = "1"
                /\ MaskLines # {}

\* with GITHUB_ENV unset two secrets were set and the run exited with 0
C6_Witness ==
    /\ github_env = None
    /\ os = "linux"
    /\ pc = "exit"
    /\ exit_status = "0"
    /\ Len(frames) = 2

Blank(text) == \A i \in 1..Len(text) : text[i] \in WhiteSpace

\* C7: a call of execute_run_command spawns at most one child.  A blank
\* command gives Ok and no spawn.  Any other command is spawned once, and
\* the result is Ok exactly when the child exits with status 0, the error
\* naming the status when the child ends otherwise, and the error naming
\* the cause, with no child, when the process could not be started.
C7_RunCommandResult ==
    run_call # None =>
        LET c == run_call[1]
        IN  /\ Len(children) <= 1
            /\ Blank(c.run_cmd) =>
                  c.result = <<"Ok">> /\ c.spawn = None /\ children = <<>>
            /\ ~Blank(c.run_cmd) =>
                  /\ c.spawn # None
                  /\ c.spawn[1].args = <<"-c", c.run_cmd>>
                  /\ c.result = <<"Ok">> <=> c.status[1] = <<"Ok", "exit status: 0">>
                  /\ (c.status[1][1] = "Ok" /\ c.status[1][2] # "exit status: 0") =>
                        /\ c.result = <<"Err", <<"Commands exited with non-zero status: ",
                                                 c.status[1][2]>> >>
                        /\ Len(children) = 1
                  /\ c.status[1][1] = "Err" =>
                        /\ c.result = <<"Err", <<"Failed to execute commands: ",
                                                 c.status[1][2]>> >>
                        /\ children = <<>>
                  /\ c.status[1][1] = "Ok" => children = <<c.spawn[1]>>

\* the command exit 1 ran with a secret in its environment and failed
C7_Witness ==
    /\ run_call # None
    /\ run_call[1].run_cmd = <<"exit", " ", "1">>
    /\ run_call[1].status = Some(<<"Ok", "exit status: 1">>)
    /\ Len(children) = 1
    /\ children[1].envs # EmptyMap
    /\ failed = "command"

\* the records whose identifier the map sends to name n
Hits(n) ==
    {i \in 1..Len(j_data) :
        j_data[i].id \in DOMAIN j_map /\ j_map[j_data[i].id] = n}

\* C8: prepare_secret_env_vars returns the map in which a name is present
\* exactly when some record's identifier is sent to it by the identifier
\* map, with the value of the last such record; a record whose identifier is
\* not in the identifier map gives nothing.
C8_Join ==
    j_out # None =>
        LET r == j_out[1]
        IN  /\ DOMAIN r = {n \in {j_map[u] : u \in DOMAIN j_map} : Hits(n) # {}}
            /\ \A n \in DOMAIN r : r[n] = j_data[Max(Hits(n))].value

\* two identifiers with one name and different values, and a record the map
\* does not know
C8_Witness ==
    /\ j_out # None
    /\ \E i \in 1..Len(j_data) : j_data[i].id \notin DOMAIN j_map
    /\ \E n \in DOMAIN j_out[1] :
          /\ Cardinality(Hits(n)) >= 2
          /\ \E i, k \in Hits(n) :
                j_data[i].id # j_data[k].id /\ j_data[i].value # j_data[k].value

\* text without the white space around it, said without recursion
Stripped(s) ==
    LET keep == {i \in 1..Len(s) : s[i] \notin WhiteSpace}
    IN  IF keep = {} THEN <<>> ELSE SubSeq(s, Min(keep), Max(keep))

Gts(line) == {i \in 1..Len(line) : line[i] = ">"}

BeforeFirst(line) ==
    IF Gts(line) = {} THEN line ELSE SubSeq(line, 1, Min(Gts(line)) - 1)

AfterFirst(line) ==
    IF Gts(line) = {} THEN <<>> ELSE SubSeq(line, Min(Gts(line)) + 1, Len(line))

BetweenFirstAndSecond(line) ==
    IF Gts(line) = {}
    THEN <<>>
    ELSE LET i == Min(Gts(line))
             rest == Gts(line) \ {i}
         IN  SubSeq(line, i + 1, IF rest = {} THEN Len(line) ELSE Min(rest) - 1)

\* C9 as claimed: the identifier is the trimmed text before the first ">"
\* and the name is all of the trimmed text after the first ">", empty when
\* the line has no ">".
C9_SplitOnFirst ==
    l_out # None =>
        /\ l_out[1].uuid_part = Stripped(BeforeFirst(l_line))
        /\ l_out[1].desired_name = Stripped(AfterFirst(l_line))

\* C9, amended: the identifier is the trimmed text before the first ">" and
\* the name is the trimmed text between the first ">" and the second, or the
\* end of the line when there is no second; what follows a second ">" is
\* not read.  The name is empty when the line has no ">".
C9_SplitTakesSecondPiece ==
    l_out # None =>
        /\ l_out[1].uuid_part = Stripped(BeforeFirst(l_line))
        /\ l_out[1].desired_name = Stripped(BetweenFirstAndSecond(l_line))

\* a line with text after a second ">"
C9_Witness ==
    /\ l_out # None
    /\ l_line = <<U1, ">", "N", ">">>
    /\ l_out[1].desired_name = <<"N">>
    /\ l_out[1].uuid = <<"Ok", "uuid1">>

StepOrder == <<"parse", "authenticate", "resolve", "project">>

StepsInOrder ==
    \/ IsPrefix(steps, StepOrder)
    \/ /\ IsPrefix(StepOrder, steps)
       /\ \/ steps = StepOrder \o <<"run">>
          \/ \A i \in (Len(StepOrder) + 1)..Len(steps) : steps[i] = "persist"

C10_Inv ==
    /\ StepsInOrder
    /\ failed = "parse" => vault_calls = <<>>
    /\ failed # "none" => pc = "exit" /\ exit_status = "1"
    /\ pc = "exit" => (exit_status = "0" <=> failed = "none")
    /\ pc # "exit" => exit_status = "running"
    /\ \A i \in 1..Len(vault_calls) :
          /\ vault_calls[i].op =
                (IF i = 1 THEN "login_access_token" ELSE "get_by_ids")
          /\ i <= 2
          /\ vault_calls[i].result = "Err" =>
                i = Len(vault_calls) /\ failed \in {"authenticate", "resolve"}
    /\ Len(vault_calls) =
          Cardinality({i \in 1..Len(steps) : steps[i] \in {"authenticate", "resolve"}})
    /\ (MaskLines # {} \/ frames # <<>> \/ children # <<>> \/ run_call # None) =>
          "project" \in Range(steps)
    /\ \A i \in 1..Len(frames) :
          frames[i].result = "Err" => i = Len(frames) /\ failed = "file"
    /\ (run_call # None /\ run_call[1].result[1] = "Err") => failed = "command"

\* C10: the steps of a run come in the order parse, authenticate, resolve,
\* project, then either the run command or the persisting of the entries;
\* a step is taken only while nothing has failed; a parse failure comes
\* before any call of the vault; a failure of any step ends the run at once
\* with a status other than 0, after which nothing more happens; a run
\* without a failure ends with status 0.
C10_OrderAndAbort ==
    /\ []C10_Inv
    /\ [][failed = "none" /\ pc # "exit"]_vars

\* the second entry's write failed after the first was persisted
C10_Witness ==
    /\ pc = "exit"
    /\ failed = "file"
    /\ Len(frames) = 2
    /\ steps = StepOrder \o <<"persist", "persist">>

====
